---- MODULE Spec2Model ----
(***************************************************************************)
(* Model of the BookmarkApp client component (src/app/bookmark-app.tsx):   *)
(* the React state it keeps, the startup resolution, the auth transition   *)
(* callback, the snapshot loader and the realtime feed callback, together  *)
(* with the part of the backend gateway those handlers talk to.            *)
(*                                                                         *)
(* JavaScript runs each handler (and each continuation after an await) to  *)
(* completion, so one action is one handler or one continuation.           *)
(***************************************************************************)
EXTENDS Integers, Sequences, FiniteSets, Bags, TLC

\* ------------------------------------------------------------------ bounds
MaxId     == 2   \* row identifiers the backend hands out (never reused)
MaxTitle  == 2   \* distinct title/url payloads
MaxStamp  == 2   \* distinct created_at values in the reconciler runs
MaxLoads  == 2   \* snapshot requests in flight at once
MaxCommits == 2  \* committed table changes in one run
MaxChan   == 3   \* channel handles the gateway can have open at once
MaxEvents == 2   \* events applied in one reconciler run
MaxStart  == 2   \* length of the starting list of a reconciler run
MaxStr    == 2   \* length of a typed title or URL, in tokens
MaxReqs   == 2   \* insert and delete requests in flight

Null  == "null"
NoChannel == 0   \* realtimeChannelRef.current = null
Users == {"A", "B"}
Ids   == 1..MaxId
Titles == 1..MaxTitle
Stamps == 1..MaxStamp
ChanIds == 1..MaxChan

VARIABLES
  session,            \* useState<Session|null>: the session's user or Null
  user,               \* useState<User|null>
  bookmarks,          \* useState<Bookmark[]>
  loading,            \* useState(true)
  error,              \* useState<string|null>
  realtimeChannelRef, \* useRef: the channel handle or NoChannel
  isMounted,          \* the effect's isMounted flag / auth listener subscribed
  initPc,             \* position of init(): "getSession", "awaitLoad", "done"
  sdkSession,         \* the gateway's current session (its user or Null)
  db,                 \* the bookmarks table
  commits,            \* number of committed table changes so far
  channels,           \* the gateway's channel handles and their undelivered events
  loads,              \* snapshot requests in flight
  last,               \* the handler step taken last and the calls it made, in order
  title,              \* useState(""): the title field
  url,                \* useState(""): the URL field
  saving,             \* useState(false)
  reqs,               \* insert and delete requests in flight
  recPrev,            \* reconciler run: the list before the last event
  recEv,              \* reconciler run: the last event applied
  recRef,             \* reconciler run: the log replayed over a set keyed by id
  recN                \* reconciler run: number of events applied

vars == <<session, user, bookmarks, loading, error, realtimeChannelRef,
          isMounted, initPc, sdkSession, db, commits, channels, loads, last,
          title, url, saving, reqs, recPrev, recEv, recRef, recN>>

appVars == <<session, user, loading, error, realtimeChannelRef, isMounted,
             initPc, sdkSession, db, commits, channels, loads, last>>
recVars == <<recPrev, recEv, recRef, recN>>
cmdVars == <<title, url, saving, reqs>>

\* ------------------------------------------------------------- data shapes
Bookmark(i, t, c) == [id |-> i, title |-> t, created_at |-> c]
NoRec == [id |-> 0, title |-> 0, created_at |-> 0]
OldKey(i) == [id |-> i, title |-> 0, created_at |-> 0]

Payload(type, new, old) == [eventType |-> type, new |-> new, old |-> old]
NoEvent == Payload("NONE", NoRec, NoRec)

IdsOf(list) == {list[k].id : k \in 1..Len(list)}
CountId(list, i) == Cardinality({k \in 1..Len(list) : list[k].id = i})

\* --------------------------------------------- the realtime feed callback
\* an INSERT branch that puts the new record first
ApplyInsert_Prepend(current, payload) == <<payload.new>> \o current

ApplyInsert(current, payload) == Append(current, payload.new)

\* a DELETE branch that also drops what follows the first record of the id
ApplyDelete_Truncate(current, payload) ==
  LET hits == {k \in 1..Len(current) : current[k].id = payload.old.id}
  IN  IF hits = {} THEN current
      ELSE SubSeq(current, 1, (CHOOSE k \in hits : \A h \in hits : k <= h) - 1)

\* a DELETE branch that removes only the first record of the id
ApplyDelete_FirstOnly(current, payload) ==
  LET hits == {k \in 1..Len(current) : current[k].id = payload.old.id}
  IN  IF hits = {} THEN current
      ELSE LET f == CHOOSE k \in hits : \A h \in hits : k <= h
           IN  SubSeq(current, 1, f - 1) \o SubSeq(current, f + 1, Len(current))

ApplyDelete(current, payload) ==
  SelectSeq(current, LAMBDA b : b.id # payload.old.id)

\* an UPDATE branch that moves the updated record to the end
ApplyUpdate_MoveToEnd(current, payload) ==
  IF payload.new.id \in {current[k].id : k \in 1..Len(current)}
  THEN Append(SelectSeq(current, LAMBDA b : b.id # payload.new.id), payload.new)
  ELSE current

\* an UPDATE branch that adds the record when no record has its id
ApplyUpdate_Upsert(current, payload) ==
  IF payload.new.id \in {current[k].id : k \in 1..Len(current)}
  THEN [k \in 1..Len(current) |->
          IF current[k].id = payload.new.id THEN payload.new ELSE current[k]]
  ELSE Append(current, payload.new)

ApplyUpdate(current, payload) ==
  [k \in 1..Len(current) |->
     IF current[k].id = payload.new.id THEN payload.new ELSE current[k]]

ApplyEvent(current, payload) ==
  IF payload.eventType = "INSERT" THEN ApplyInsert(current, payload)
  ELSE IF payload.eventType = "DELETE" THEN ApplyDelete(current, payload)
  ELSE IF payload.eventType = "UPDATE" THEN ApplyUpdate(current, payload)
  ELSE current

\* ------------------------------------------------ the View Projector (sort)
\* [...bookmarks].sort((a, b) => time(b.created_at) - time(a.created_at)):
\* a stable sort, newest first
RECURSIVE InsertSorted(_, _)
InsertSorted(sorted, b) ==
  IF sorted = <<>> THEN <<b>>
  ELSE IF Head(sorted).created_at >= b.created_at
       THEN <<Head(sorted)>> \o InsertSorted(Tail(sorted), b)
       ELSE <<b>> \o sorted

RECURSIVE SortDesc(_)
SortDesc(list) ==
  IF list = <<>> THEN <<>>
  ELSE InsertSorted(SortDesc(SubSeq(list, 1, Len(list) - 1)), list[Len(list)])

\* a projection that shows the oldest record first
sortedBookmarks_OldestFirst ==
  LET d == SortDesc(bookmarks)
  IN  [k \in 1..Len(d) |-> d[Len(d) + 1 - k]]

sortedBookmarks == SortDesc(bookmarks)

\* ------------------------------------------------------ the backend gateway
NoRow == [st |-> "none", owner |-> Null, title |-> 0]
\* a deleted row: its identifier stays taken and still names its former owner
GoneRow(u) == [st |-> "gone", owner |-> u, title |-> 0]
LiveRow(u, t) == [st |-> "live", owner |-> u, title |-> t]

\* created_at is assigned by the server and grows with every insert; the
\* identifier handed out with it is never reused
Visible(table, uid) == {i \in Ids : table[i].st = "live" /\ table[i].owner = uid}

\* select id, url, title, created_at ... order by created_at desc, as the
\* authorization layer lets uid see it
RECURSIVE SelectFrom(_, _, _)
SelectFrom(table, uid, i) ==
  IF i = 0 THEN <<>>
  ELSE (IF i \in Visible(table, uid)
        THEN <<Bookmark(i, table[i].title, i)>> ELSE <<>>)
       \o SelectFrom(table, uid, i - 1)

Select(table, uid) == SelectFrom(table, uid, MaxId)

ClosedChan == [open |-> FALSE, uid |-> Null, q |-> <<>>]
OpenIds(chs) == {c \in ChanIds : chs[c].open}
FreeIds(chs) == ChanIds \ OpenIds(chs)
MinOf(S) == CHOOSE x \in S : \A y \in S : x <= y

\* a committed change reaches every open handle whose identity may read the row
Broadcast(chs, owner, payload) ==
  [c \in ChanIds |->
     IF chs[c].open /\ chs[c].uid = owner
     THEN [chs[c] EXCEPT !.q = Append(@, payload)]
     ELSE chs[c]]

\* a snapshot request in flight: st is "req" until the backend has answered,
\* then "ok" (with data) or "err"; by tells whether init() awaits it; uid is the
\* identity the request was sent under; stale tells that a later transition has
\* been processed since it was issued; at is the set of
\* identifiers the list held when the request was issued
Load(st, by, uid, stale, data, at) ==
  [st |-> st, by |-> by, uid |-> uid, stale |-> stale, data |-> data, at |-> at]
One(l) == SetToBag({l})
CanIssue(lds) == BagCardinality(lds) < MaxLoads
Staled(l) == [l EXCEPT !.stale = TRUE]
MarkStale(lds) ==
  [x \in {Staled(l) : l \in BagToSet(lds)} |->
     (IF BagIn(x, lds) THEN lds[x] ELSE 0)
     + (IF BagIn([x EXCEPT !.stale = FALSE], lds)
        THEN lds[[x EXCEPT !.stale = FALSE]] ELSE 0)]

\* what an insert request carries; NoSent when the step sent none
Sent(t, u, uid) == [title |-> t, url |-> u, user_id |-> uid]
NoSent == Sent(<<>>, <<>>, Null)

\* what the last step was: its calls in order (fx), the undelivered events its
\* removeChannel discarded (dropped), whether it replaced the list from a
\* snapshot (wrote) that an earlier transition had requested (stale), who
\* awaited that snapshot (by), which handle an event came from (chan), which
\* record a delete was about (id), what an insert request carried (sent)
Step(op, fx) == [op |-> op, fx |-> fx, dropped |-> 0, wrote |-> FALSE,
                 stale |-> FALSE, by |-> "none", chan |-> 0, id |-> 0,
                 sent |-> NoSent]

\* ------------------------------------------- teardownRealtime / setupRealtime
\* teardownRealtime that forgets removeChannel
teardownRealtime_KeepOpen(ref, chs) ==
  [ref |-> NoChannel, channels |-> chs, fx |-> <<>>, dropped |-> 0]

teardownRealtime(ref, chs) ==
  IF ref # NoChannel
  THEN [ref |-> NoChannel, channels |-> [chs EXCEPT ![ref] = ClosedChan],
        fx |-> <<"removeChannel">>, dropped |-> Len(chs[ref].q)]
  ELSE [ref |-> NoChannel, channels |-> chs, fx |-> <<>>, dropped |-> 0]

\* setupRealtime without its leading teardownRealtime()
setupRealtime_NoTeardown(ref, chs, uid) ==
  LET c == MinOf(FreeIds(chs))
  IN  [ref |-> c,
       channels |-> [chs EXCEPT ![c] = [open |-> TRUE, uid |-> uid, q |-> <<>>]],
       fx |-> <<"subscribe">>, dropped |-> 0]

setupRealtime(ref, chs, uid) ==
  LET t == teardownRealtime(ref, chs)
      c == MinOf(FreeIds(t.channels))
  IN  [ref |-> c,
       channels |-> [t.channels EXCEPT ![c] = [open |-> TRUE, uid |-> uid, q |-> <<>>]],
       fx |-> t.fx \o <<"subscribe">>, dropped |-> t.dropped]

\* loadBookmarks up to its await: setError(null) and the select request
issueLoad(lds, by, uid, list) ==
  lds (+) One(Load("req", by, uid, FALSE, <<>>, IdsOf(list)))

\* the present branch with its two calls swapped
cbPresent_SubscribeFirst(list, ref, chs, lds, uid) ==
  LET s == setupRealtime(ref, chs, uid)
  IN  [ref |-> s.ref, channels |-> s.channels,
       loads |-> issueLoad(MarkStale(lds), "cb", uid, list),
       fx |-> s.fx \o <<"select">>, dropped |-> s.dropped]

\* onAuthStateChange callback, branch newSession.user present:
\* loadBookmarks(); setupRealtime();
cbPresent(list, ref, chs, lds, uid) ==
  LET s == setupRealtime(ref, chs, uid)
  IN  [ref |-> s.ref, channels |-> s.channels,
       loads |-> issueLoad(MarkStale(lds), "cb", uid, list),
       fx |-> <<"select">> \o s.fx, dropped |-> s.dropped]

\* the absent branch without its teardownRealtime()
cbAbsent_NoTeardown(list, ref, chs) ==
  [bookmarks |-> <<>>, ref |-> ref, channels |-> chs, fx |-> <<"setBookmarks">>,
   dropped |-> 0]

\* onAuthStateChange callback, branch without user:
\* setBookmarks([]); teardownRealtime();
cbAbsent(list, ref, chs) ==
  LET t == teardownRealtime(ref, chs)
  IN  [bookmarks |-> <<>>, ref |-> t.ref, channels |-> t.channels,
       fx |-> <<"setBookmarks">> \o t.fx, dropped |-> t.dropped]

\* ------------------------------------------------------------------- Init
Init ==
  /\ session = Null
  /\ user = Null
  /\ bookmarks = <<>>
  /\ loading = TRUE
  /\ error = Null
  /\ realtimeChannelRef = NoChannel
  /\ isMounted = TRUE
  /\ initPc = "getSession"
  /\ sdkSession \in Users \cup {Null}
  /\ db = [i \in Ids |-> NoRow]
  /\ commits = 0
  /\ channels = [c \in ChanIds |-> ClosedChan]
  /\ loads = EmptyBag
  /\ last = Step("mount", <<>>)
  /\ title = <<>>
  /\ url = <<>>
  /\ saving = FALSE
  /\ reqs = EmptyBag
  /\ recPrev = <<>>
  /\ recEv = NoEvent
  /\ recRef = [i \in Ids |-> NoRec]
  /\ recN = 0

\* ---------------------------------------------------------------- startup
\* init(): getSession() has returned
InitResolve ==
  /\ initPc = "getSession"
  /\ IF ~isMounted
     THEN /\ initPc' = "done"
          /\ last' = Step("initResolve", <<>>)
          /\ UNCHANGED <<session, user, loading, error, loads>>
     ELSE /\ session' = sdkSession
          /\ user' = sdkSession
          /\ loading' = FALSE
          /\ IF sdkSession # Null
             THEN /\ CanIssue(loads)
                  /\ error' = Null
                  /\ loads' = issueLoad(loads, "init", sdkSession, bookmarks)
                  /\ initPc' = "awaitLoad"
                  /\ last' = Step("initResolve", <<"select">>)
             ELSE /\ initPc' = "done"
                  /\ last' = Step("initResolve", <<>>)
                  /\ UNCHANGED <<error, loads>>
  /\ UNCHANGED <<bookmarks, realtimeChannelRef, isMounted, sdkSession, db, commits,
                 channels>>
  /\ UNCHANGED recVars
  /\ UNCHANGED cmdVars

\* a callback that also signals readiness
OnAuthStateChange_SignalsReady(newSession) ==
  /\ isMounted
  /\ sdkSession' = newSession
  /\ session' = newSession
  /\ user' = newSession
  /\ IF newSession = Null
     THEN LET r == cbAbsent(bookmarks, realtimeChannelRef, channels)
          IN  /\ bookmarks' = r.bookmarks
              /\ realtimeChannelRef' = r.ref
              /\ channels' = r.channels
              /\ loads' = MarkStale(loads)
              /\ last' = [Step("authAbsent", r.fx) EXCEPT !.dropped = r.dropped]
              /\ UNCHANGED error
     ELSE /\ CanIssue(loads)
          /\ LET r == cbPresent(bookmarks, realtimeChannelRef, channels, loads, newSession)
             IN  /\ realtimeChannelRef' = r.ref
                 /\ channels' = r.channels
                 /\ loads' = r.loads
                 /\ last' = [Step("authPresent", r.fx) EXCEPT !.dropped = r.dropped]
          /\ error' = Null
          /\ UNCHANGED bookmarks
  /\ loading' = FALSE
  /\ UNCHANGED <<isMounted, initPc, db, commits>>
  /\ UNCHANGED recVars
  /\ UNCHANGED cmdVars

\* a callback that stores the session and leaves the user as it was
OnAuthStateChange_SessionOnly(newSession) ==
  /\ isMounted
  /\ sdkSession' = newSession
  /\ session' = newSession
  /\ user' = user
  /\ IF newSession = Null
     THEN LET r == cbAbsent(bookmarks, realtimeChannelRef, channels)
          IN  /\ bookmarks' = r.bookmarks
              /\ realtimeChannelRef' = r.ref
              /\ channels' = r.channels
              /\ loads' = MarkStale(loads)
              /\ last' = [Step("authAbsent", r.fx) EXCEPT !.dropped = r.dropped]
              /\ UNCHANGED error
     ELSE /\ CanIssue(loads)
          /\ LET r == cbPresent(bookmarks, realtimeChannelRef, channels, loads, newSession)
             IN  /\ realtimeChannelRef' = r.ref
                 /\ channels' = r.channels
                 /\ loads' = r.loads
                 /\ last' = [Step("authPresent", r.fx) EXCEPT !.dropped = r.dropped]
          /\ error' = Null
          /\ UNCHANGED bookmarks
  /\ UNCHANGED <<loading, isMounted, initPc, db, commits>>
  /\ UNCHANGED recVars
  /\ UNCHANGED cmdVars

\* the gateway changes its session and notifies the onAuthStateChange callback
OnAuthStateChange(newSession) ==
  /\ isMounted
  /\ sdkSession' = newSession
  /\ session' = newSession
  /\ user' = newSession
  /\ IF newSession = Null
     THEN LET r == cbAbsent(bookmarks, realtimeChannelRef, channels)
          IN  /\ bookmarks' = r.bookmarks
              /\ realtimeChannelRef' = r.ref
              /\ channels' = r.channels
              /\ loads' = MarkStale(loads)
              /\ last' = [Step("authAbsent", r.fx) EXCEPT !.dropped = r.dropped]
              /\ UNCHANGED error
     ELSE /\ CanIssue(loads)
          /\ LET r == cbPresent(bookmarks, realtimeChannelRef, channels, loads, newSession)
             IN  /\ realtimeChannelRef' = r.ref
                 /\ channels' = r.channels
                 /\ loads' = r.loads
                 /\ last' = [Step("authPresent", r.fx) EXCEPT !.dropped = r.dropped]
          /\ error' = Null
          /\ UNCHANGED bookmarks
  /\ UNCHANGED <<loading, isMounted, initPc, db, commits>>
  /\ UNCHANGED recVars
  /\ UNCHANGED cmdVars

\* the gateway's session changes after the listener was unsubscribed
SessionChangeUnheard(newSession) ==
  /\ ~isMounted
  /\ newSession # sdkSession
  /\ sdkSession' = newSession
  /\ last' = Step("backend", <<>>)
  /\ UNCHANGED <<session, user, bookmarks, loading, error, realtimeChannelRef,
                 isMounted, initPc, db, commits, channels, loads>>
  /\ UNCHANGED recVars
  /\ UNCHANGED cmdVars

\* ---------------------------------------------------------- snapshot loader
\* the backend answers the select with the rows the request's identity may read
LoadServe(l) ==
  /\ BagIn(l, loads)
  /\ l.st = "req"
  /\ loads' = (loads (-) One(l))
              (+) One([l EXCEPT !.st = "ok", !.data = Select(db, l.uid)])
  /\ last' = Step("backend", <<>>)
  /\ UNCHANGED <<session, user, bookmarks, loading, error, realtimeChannelRef,
                 isMounted, initPc, sdkSession, db, commits, channels>>
  /\ UNCHANGED recVars
  /\ UNCHANGED cmdVars

\* transport or authorization error
LoadFail(l) ==
  /\ BagIn(l, loads)
  /\ l.st = "req"
  /\ loads' = (loads (-) One(l)) (+) One([l EXCEPT !.st = "err"])
  /\ last' = Step("backend", <<>>)
  /\ UNCHANGED <<session, user, bookmarks, loading, error, realtimeChannelRef,
                 isMounted, initPc, sdkSession, db, commits, channels>>
  /\ UNCHANGED recVars
  /\ UNCHANGED cmdVars

\* loadBookmarks that clears the list when the select failed
loadBookmarksDone_ClearOnError(list, err, l) ==
  IF l.st = "ok"
  THEN [bookmarks |-> l.data, error |-> err]
  ELSE [bookmarks |-> <<>>, error |-> "Failed to load bookmarks"]

\* loadBookmarks that merges the rows into the list it finds
loadBookmarksDone_Merge(list, err, l) ==
  IF l.st = "ok"
  THEN [bookmarks |-> list \o l.data, error |-> err]
  ELSE [bookmarks |-> list, error |-> "Failed to load bookmarks"]

\* loadBookmarks after its await: on error setError(...) and return, else
\* setBookmarks(data ?? [])
loadBookmarksDone(list, err, l) ==
  IF l.st = "ok"
  THEN [bookmarks |-> l.data, error |-> err]
  ELSE [bookmarks |-> list, error |-> "Failed to load bookmarks"]

\* loadBookmarks after its await; for init's load, init continues with
\* setupRealtime()
LoadDeliver(l) ==
  /\ BagIn(l, loads)
  /\ l.st \in {"ok", "err"}
  /\ LET ok == l.st = "ok"
         s  == IF l.by = "init"
               THEN setupRealtime(realtimeChannelRef, channels, sdkSession)
               ELSE [ref |-> realtimeChannelRef, channels |-> channels, fx |-> <<>>,
                     dropped |-> 0]
         d  == loadBookmarksDone(bookmarks, error, l)
     IN  /\ bookmarks' = d.bookmarks
         /\ error' = d.error
         /\ realtimeChannelRef' = s.ref
         /\ channels' = s.channels
         /\ initPc' = IF l.by = "init" THEN "done" ELSE initPc
         /\ last' = [Step("loadDone", (IF ok THEN <<"setBookmarks">> ELSE <<>>) \o s.fx)
                       EXCEPT !.dropped = s.dropped, !.wrote = ok,
                              !.stale = l.stale, !.by = l.by]
  /\ loads' = loads (-) One(l)
  /\ UNCHANGED <<session, user, loading, isMounted, sdkSession, db, commits>>
  /\ UNCHANGED recVars
  /\ UNCHANGED cmdVars

\* ------------------------------------------------------------ realtime feed
\* a callback that takes the newest undelivered event first
FeedDeliver_NewestFirst(c) ==
  /\ channels[c].open
  /\ channels[c].q # <<>>
  /\ LET n == Len(channels[c].q)
     IN  /\ bookmarks' = ApplyEvent(bookmarks, channels[c].q[n])
         /\ channels' = [channels EXCEPT ![c].q = SubSeq(@, 1, n - 1)]
  /\ last' = [Step("feed", <<>>) EXCEPT !.chan = c]
  /\ UNCHANGED <<session, user, loading, error, realtimeChannelRef, isMounted,
                 initPc, sdkSession, db, commits, loads>>
  /\ UNCHANGED recVars
  /\ UNCHANGED cmdVars

\* the postgres_changes callback receives the next event of an open handle
FeedDeliver(c) ==
  /\ channels[c].open
  /\ channels[c].q # <<>>
  /\ bookmarks' = ApplyEvent(bookmarks, Head(channels[c].q))
  /\ channels' = [channels EXCEPT ![c].q = Tail(@)]
  /\ last' = [Step("feed", <<>>) EXCEPT !.chan = c]
  /\ UNCHANGED <<session, user, loading, error, realtimeChannelRef, isMounted,
                 initPc, sdkSession, db, commits, loads>>
  /\ UNCHANGED recVars
  /\ UNCHANGED cmdVars

\* -------------------------------------------------- committed table changes
\* (made through any tab of the owner)
DbInsert(u, t) ==
  /\ commits < MaxCommits
  /\ commits' = commits + 1
  /\ \E i \in Ids : db[i].st = "none"
  /\ LET i == MinOf({j \in Ids : db[j].st = "none"})
     IN  /\ db' = [db EXCEPT ![i] = LiveRow(u, t)]
         /\ channels' = Broadcast(channels, u,
                                  Payload("INSERT", Bookmark(i, t, i), NoRec))
  /\ last' = Step("backend", <<>>)
  /\ UNCHANGED <<session, user, bookmarks, loading, error, realtimeChannelRef,
                 isMounted, initPc, sdkSession, loads>>
  /\ UNCHANGED recVars
  /\ UNCHANGED cmdVars

DbUpdate(i, t) ==
  /\ commits < MaxCommits
  /\ commits' = commits + 1
  /\ db[i].st = "live"
  /\ t > db[i].title
  /\ db' = [db EXCEPT ![i].title = t]
  /\ channels' = Broadcast(channels, db[i].owner,
                           Payload("UPDATE", Bookmark(i, t, i), OldKey(i)))
  /\ last' = Step("backend", <<>>)
  /\ UNCHANGED <<session, user, bookmarks, loading, error, realtimeChannelRef,
                 isMounted, initPc, sdkSession, loads>>
  /\ UNCHANGED recVars
  /\ UNCHANGED cmdVars

DbDelete(i) ==
  /\ commits < MaxCommits
  /\ commits' = commits + 1
  /\ db[i].st = "live"
  /\ db' = [db EXCEPT ![i] = GoneRow(db[i].owner)]
  /\ channels' = Broadcast(channels, db[i].owner,
                           Payload("DELETE", NoRec, OldKey(i)))
  /\ last' = Step("backend", <<>>)
  /\ UNCHANGED <<session, user, bookmarks, loading, error, realtimeChannelRef,
                 isMounted, initPc, sdkSession, loads>>
  /\ UNCHANGED recVars
  /\ UNCHANGED cmdVars

\* ------------------------------------------------------ sign-out and cleanup
\* handleSignOut up to its await; a successful signOut() then shows up as
\* OnAuthStateChange(Null), a failed one as nothing
handleSignOut ==
  /\ isMounted
  /\ ~loading
  /\ session # Null
  /\ user # Null
  /\ error' = Null
  /\ LET t == teardownRealtime(realtimeChannelRef, channels)
     IN  /\ realtimeChannelRef' = t.ref
         /\ channels' = t.channels
         /\ last' = [Step("handleSignOut", t.fx) EXCEPT !.dropped = t.dropped]
  /\ UNCHANGED <<session, user, bookmarks, loading, isMounted, initPc,
                 sdkSession, db, commits, loads>>
  /\ UNCHANGED recVars
  /\ UNCHANGED cmdVars

\* the effect's cleanup: isMounted = false; unsubscribe; teardownRealtime()
Cleanup ==
  /\ isMounted
  /\ isMounted' = FALSE
  /\ LET t == teardownRealtime(realtimeChannelRef, channels)
     IN  /\ realtimeChannelRef' = t.ref
         /\ channels' = t.channels
         /\ last' = [Step("cleanup", t.fx) EXCEPT !.dropped = t.dropped]
  /\ UNCHANGED <<session, user, bookmarks, loading, error, initPc, sdkSession,
                 db, commits, loads>>
  /\ UNCHANGED recVars
  /\ UNCHANGED cmdVars

Next ==
  \/ InitResolve
  \/ \E s \in Users \cup {Null} : OnAuthStateChange(s)
  \/ \E s \in Users \cup {Null} : SessionChangeUnheard(s)
  \/ \E l \in BagToSet(loads) : LoadServe(l)
  \/ \E l \in BagToSet(loads) : LoadFail(l)
  \/ \E l \in BagToSet(loads) : LoadDeliver(l)
  \/ \E c \in ChanIds : FeedDeliver(c)
  \/ \E u \in Users, t \in Titles : DbInsert(u, t)
  \/ \E i \in Ids, t \in Titles : DbUpdate(i, t)
  \/ \E i \in Ids : DbDelete(i)
  \/ handleSignOut
  \/ Cleanup

Spec == Init /\ [][Next]_vars

\* ------------------------------------------------------- reconciler runs
\* The feed callback as a function of the list and the event: a run starts
\* from any list without repeated identifiers and applies any events.
Records == {Bookmark(i, t, c) : i \in Ids, t \in Titles, c \in Stamps}

Events ==
  {Payload("INSERT", r, NoRec) : r \in Records}
  \cup {Payload("UPDATE", r, OldKey(r.id)) : r \in Records}
  \cup {Payload("DELETE", NoRec, OldKey(i)) : i \in Ids}

RECURSIVE ListsUpTo(_)
ListsUpTo(n) ==
  IF n = 0 THEN {<<>>}
  ELSE LET shorter == ListsUpTo(n - 1)
       IN  shorter \cup {Append(l, r) : l \in shorter, r \in Records}

StartLists == {l \in ListsUpTo(MaxStart) : \A i \in Ids : CountId(l, i) <= 1}

\* the set keyed by identifier that a list without repeated identifiers stands for
KeyedSet(list) ==
  [i \in Ids |->
     IF i \in IdsOf(list)
     THEN list[CHOOSE k \in 1..Len(list) : list[k].id = i]
     ELSE NoRec]

\* one event of the log replayed over the keyed set: an insert writes the record
\* (an insert of a present identifier counts as an update), an update writes it
\* if the identifier is present, a delete removes it
Replay(set, payload) ==
  IF payload.eventType = "INSERT"
  THEN [set EXCEPT ![payload.new.id] = payload.new]
  ELSE IF payload.eventType = "UPDATE"
  THEN (IF set[payload.new.id] # NoRec
        THEN [set EXCEPT ![payload.new.id] = payload.new] ELSE set)
  ELSE IF payload.eventType = "DELETE"
  THEN [set EXCEPT ![payload.old.id] = NoRec]
  ELSE set

InitRec ==
  /\ bookmarks \in StartLists
  /\ recPrev = bookmarks
  /\ recEv = NoEvent
  /\ recRef = KeyedSet(bookmarks)
  /\ recN = 0
  /\ session = "A"
  /\ user = "A"
  /\ loading = FALSE
  /\ error = Null
  /\ realtimeChannelRef = 1
  /\ isMounted = TRUE
  /\ initPc = "done"
  /\ sdkSession = "A"
  /\ db = [i \in Ids |-> NoRow]
  /\ commits = 0
  /\ channels = [c \in ChanIds |->
                   IF c = 1 THEN [open |-> TRUE, uid |-> "A", q |-> <<>>]
                   ELSE ClosedChan]
  /\ loads = EmptyBag
  /\ last = Step("mount", <<>>)
  /\ title = <<>>
  /\ url = <<>>
  /\ saving = FALSE
  /\ reqs = EmptyBag

\* the postgres_changes callback applied to one event
RecEvent(payload) ==
  /\ recN < MaxEvents
  /\ recPrev' = bookmarks
  /\ recEv' = payload
  /\ bookmarks' = ApplyEvent(bookmarks, payload)
  /\ recRef' = Replay(recRef, payload)
  /\ recN' = recN + 1
  /\ UNCHANGED appVars
  /\ UNCHANGED cmdVars

NextRec == \E payload \in Events : RecEvent(payload)

SpecRec == InitRec /\ [][NextRec]_vars

\* ------------------------------------------------- the create/delete commands
\* Typed text is a sequence of tokens: a whitespace character, other text, or
\* one of the two scheme prefixes the code looks for.
Space == "sp"
TitleChars == {Space, "x"}
UrlChars == {Space, "x", "http://", "https://"}
StrsOver(S) == UNION {[1..n -> S] : n \in 0..MaxStr}

\* String.prototype.trim
RECURSIVE TrimStart(_)
TrimStart(s) ==
  IF s # <<>> /\ Head(s) = Space THEN TrimStart(Tail(s)) ELSE s

RECURSIVE TrimEnd(_)
TrimEnd(s) ==
  IF s # <<>> /\ s[Len(s)] = Space THEN TrimEnd(SubSeq(s, 1, Len(s) - 1)) ELSE s

Trim(s) == TrimEnd(TrimStart(s))

\* String.prototype.startsWith for a scheme prefix
StartsWith(s, prefix) == s # <<>> /\ Head(s) = prefix

\* a validation that forgets to trim
isBlank_NoTrim(s) == s = <<>>

\* !url.trim(), !title.trim()
isBlank(s) == Trim(s) = <<>>

\* a normalization that sends the text as typed
normalizedUrl_AsTyped(u) == u

\* url.startsWith("http://") || url.startsWith("https://") ? url : `https://${url}`
normalizedUrl(u) ==
  IF StartsWith(u, "http://") \/ StartsWith(u, "https://")
  THEN u
  ELSE <<"https://">> \o u

\* an insert or delete request in flight: st is "req" until the backend has
\* answered, then "ok" or "err"; id is the record a delete names, uid the
\* user_id an insert carries (the row's title and url are not part of the
\* list's records here, so the request in flight does not keep them)
Req(kind, st, id, uid) == [kind |-> kind, st |-> st, id |-> id, uid |-> uid]
CanSend(rs) == BagCardinality(rs) < MaxReqs
FormShown == isMounted /\ ~loading /\ session # Null /\ user # Null

\* onChange of the title field
SetTitle(s) ==
  /\ FormShown
  /\ s # title
  /\ title' = s
  /\ last' = Step("setTitle", <<>>)
  /\ UNCHANGED <<url, saving, reqs, bookmarks>>
  /\ UNCHANGED <<session, user, loading, error, realtimeChannelRef, isMounted,
                 initPc, sdkSession, db, commits, channels, loads>>
  /\ UNCHANGED recVars

\* onChange of the URL field
SetUrl(s) ==
  /\ FormShown
  /\ s # url
  /\ url' = s
  /\ last' = Step("setUrl", <<>>)
  /\ UNCHANGED <<title, saving, reqs, bookmarks>>
  /\ UNCHANGED <<session, user, loading, error, realtimeChannelRef, isMounted,
                 initPc, sdkSession, db, commits, channels, loads>>
  /\ UNCHANGED recVars

\* a form whose submit button stays enabled while saving
handleAddBookmark_NoDisable ==
  /\ FormShown
  /\ IF isBlank(url) \/ isBlank(title)
     THEN /\ error' = "Please provide both a title and URL"
          /\ last' = Step("addRejected", <<>>)
          /\ UNCHANGED <<saving, reqs>>
     ELSE /\ CanSend(reqs)
          /\ saving' = TRUE
          /\ error' = Null
          /\ reqs' = reqs (+) One(Req("insert", "req", 0, user))
          /\ last' = [Step("addIssued", <<"insert">>) EXCEPT
                        !.sent = Sent(Trim(title), Trim(normalizedUrl(url)), user)]
  /\ UNCHANGED <<title, url, bookmarks>>
  /\ UNCHANGED <<session, user, loading, realtimeChannelRef, isMounted,
                 initPc, sdkSession, db, commits, channels, loads>>
  /\ UNCHANGED recVars

\* handleAddBookmark up to its await; the submit button is disabled while saving
handleAddBookmark ==
  /\ FormShown
  /\ ~saving
  /\ IF isBlank(url) \/ isBlank(title)
     THEN /\ error' = "Please provide both a title and URL"
          /\ last' = Step("addRejected", <<>>)
          /\ UNCHANGED <<saving, reqs>>
     ELSE /\ CanSend(reqs)
          /\ saving' = TRUE
          /\ error' = Null
          /\ reqs' = reqs (+) One(Req("insert", "req", 0, user))
          /\ last' = [Step("addIssued", <<"insert">>) EXCEPT
                        !.sent = Sent(Trim(title), Trim(normalizedUrl(url)), user)]
  /\ UNCHANGED <<title, url, bookmarks>>
  /\ UNCHANGED <<session, user, loading, realtimeChannelRef, isMounted,
                 initPc, sdkSession, db, commits, channels, loads>>
  /\ UNCHANGED recVars

\* a handler that validates the fields before it looks for the user
handleAddBookmarkNoUser_ValidateFirst ==
  /\ isMounted
  /\ ~loading
  /\ user = Null
  /\ last' = Step("addNoUser", <<>>)
  /\ error' = IF isBlank(url) \/ isBlank(title)
              THEN "Please provide both a title and URL" ELSE error
  /\ UNCHANGED <<title, url, saving, reqs, bookmarks>>
  /\ UNCHANGED <<session, user, loading, realtimeChannelRef, isMounted,
                 initPc, sdkSession, db, commits, channels, loads>>
  /\ UNCHANGED recVars

\* handleAddBookmark called with no user: `if (!user) return;`
handleAddBookmarkNoUser ==
  /\ isMounted
  /\ ~loading
  /\ user = Null
  /\ last' = Step("addNoUser", <<>>)
  /\ UNCHANGED <<title, url, saving, reqs, bookmarks, error>>
  /\ UNCHANGED <<session, user, loading, realtimeChannelRef, isMounted,
                 initPc, sdkSession, db, commits, channels, loads>>
  /\ UNCHANGED recVars

\* the backend commits an insert: the policy wants user_id to be the caller
InsertServe(r) ==
  /\ BagIn(r, reqs)
  /\ r.kind = "insert"
  /\ r.st = "req"
  /\ r.uid = sdkSession
  /\ commits < MaxCommits
  /\ commits' = commits + 1
  /\ \E i \in Ids : db[i].st = "none"
  /\ LET i == MinOf({j \in Ids : db[j].st = "none"})
         t == MinOf(Titles)
     IN  /\ db' = [db EXCEPT ![i] = LiveRow(r.uid, t)]
         /\ channels' = Broadcast(channels, r.uid,
                                  Payload("INSERT", Bookmark(i, t, i), NoRec))
  /\ reqs' = (reqs (-) One(r)) (+) One([r EXCEPT !.st = "ok"])
  /\ last' = Step("backend", <<>>)
  /\ UNCHANGED <<title, url, saving, bookmarks>>
  /\ UNCHANGED <<session, user, loading, error, realtimeChannelRef, isMounted,
                 initPc, sdkSession, loads>>
  /\ UNCHANGED recVars

\* the backend runs a delete: it removes the row if the caller owns it and
\* answers without error either way
DeleteServe(r) ==
  /\ BagIn(r, reqs)
  /\ r.kind = "delete"
  /\ r.st = "req"
  /\ IF db[r.id].st = "live" /\ db[r.id].owner = sdkSession
     THEN /\ commits < MaxCommits
          /\ commits' = commits + 1
          /\ db' = [db EXCEPT ![r.id] = GoneRow(db[r.id].owner)]
          /\ channels' = Broadcast(channels, db[r.id].owner,
                                   Payload("DELETE", NoRec, OldKey(r.id)))
     ELSE UNCHANGED <<commits, db, channels>>
  /\ reqs' = (reqs (-) One(r)) (+) One([r EXCEPT !.st = "ok"])
  /\ last' = Step("backend", <<>>)
  /\ UNCHANGED <<title, url, saving, bookmarks>>
  /\ UNCHANGED <<session, user, loading, error, realtimeChannelRef, isMounted,
                 initPc, sdkSession, loads>>
  /\ UNCHANGED recVars

\* an insert or delete request fails (transport or policy)
ReqFail(r) ==
  /\ BagIn(r, reqs)
  /\ r.st = "req"
  /\ reqs' = (reqs (-) One(r)) (+) One([r EXCEPT !.st = "err"])
  /\ last' = Step("backend", <<>>)
  /\ UNCHANGED <<title, url, saving, bookmarks>>
  /\ UNCHANGED <<session, user, loading, error, realtimeChannelRef, isMounted,
                 initPc, sdkSession, db, commits, channels, loads>>
  /\ UNCHANGED recVars

\* a handler that clears the fields whatever the insert answered
insertDone_ClearAlways(ok, t, u, err) ==
  [saving |-> FALSE, title |-> <<>>, url |-> <<>>,
   error |-> IF ok THEN err ELSE "Failed to save bookmark"]

\* a handler that returns on error before setSaving(false)
insertDone_KeepSaving(ok, t, u, err) ==
  IF ok
  THEN [saving |-> FALSE, title |-> <<>>, url |-> <<>>, error |-> err]
  ELSE [saving |-> TRUE, title |-> t, url |-> u,
        error |-> "Failed to save bookmark"]

\* handleAddBookmark after its await
insertDone(ok, t, u, err) ==
  IF ok
  THEN [saving |-> FALSE, title |-> <<>>, url |-> <<>>, error |-> err]
  ELSE [saving |-> FALSE, title |-> t, url |-> u,
        error |-> "Failed to save bookmark"]

InsertDone(r) ==
  /\ BagIn(r, reqs)
  /\ r.kind = "insert"
  /\ r.st # "req"
  /\ reqs' = reqs (-) One(r)
  /\ LET d == insertDone(r.st = "ok", title, url, error)
     IN  /\ saving' = d.saving
         /\ title' = d.title
         /\ url' = d.url
         /\ error' = d.error
  /\ last' = Step(IF r.st = "ok" THEN "insertOk" ELSE "insertFailed", <<>>)
  /\ UNCHANGED bookmarks
  /\ UNCHANGED <<session, user, loading, realtimeChannelRef, isMounted,
                 initPc, sdkSession, db, commits, channels, loads>>
  /\ UNCHANGED recVars

\* a delete handler that removes the record from the list at once
handleDeleteBookmark_Optimistic(id) ==
  /\ FormShown
  /\ id \in IdsOf(bookmarks)
  /\ CanSend(reqs)
  /\ error' = Null
  /\ bookmarks' = SelectSeq(bookmarks, LAMBDA b : b.id # id)
  /\ reqs' = reqs (+) One(Req("delete", "req", id, user))
  /\ last' = [Step("handleDelete", <<"delete">>) EXCEPT !.id = id]
  /\ UNCHANGED <<title, url, saving>>
  /\ UNCHANGED <<session, user, loading, realtimeChannelRef, isMounted,
                 initPc, sdkSession, db, commits, channels, loads>>
  /\ UNCHANGED recVars

\* handleDeleteBookmark up to its await, from the Delete button of a record
handleDeleteBookmark(id) ==
  /\ FormShown
  /\ id \in IdsOf(bookmarks)
  /\ CanSend(reqs)
  /\ error' = Null
  /\ reqs' = reqs (+) One(Req("delete", "req", id, user))
  /\ last' = [Step("handleDelete", <<"delete">>) EXCEPT !.id = id]
  /\ UNCHANGED <<title, url, saving, bookmarks>>
  /\ UNCHANGED <<session, user, loading, realtimeChannelRef, isMounted,
                 initPc, sdkSession, db, commits, channels, loads>>
  /\ UNCHANGED recVars

\* handleDeleteBookmark after its await
DeleteDone(r) ==
  /\ BagIn(r, reqs)
  /\ r.kind = "delete"
  /\ r.st # "req"
  /\ reqs' = reqs (-) One(r)
  /\ error' = IF r.st = "ok" THEN error ELSE "Failed to delete bookmark"
  /\ last' = [Step(IF r.st = "ok" THEN "deleteOk" ELSE "deleteFailed", <<>>)
                EXCEPT !.id = r.id]
  /\ UNCHANGED <<title, url, saving, bookmarks>>
  /\ UNCHANGED <<session, user, loading, realtimeChannelRef, isMounted,
                 initPc, sdkSession, db, commits, channels, loads>>
  /\ UNCHANGED recVars

\* handleSignOut after its await when signOut() answered with an error right
\* away: the result is not looked at
SignOutError ==
  /\ last.op = "handleSignOut"
  /\ last' = Step("signOutFailed", <<>>)
  /\ UNCHANGED <<session, user, bookmarks, loading, error, realtimeChannelRef,
                 isMounted, initPc, sdkSession, db, commits, channels, loads>>
  /\ UNCHANGED cmdVars
  /\ UNCHANGED recVars

\* a signed-in tab after init(): subscribed, the table and the list empty
InitCmd ==
  /\ session = "A"
  /\ user = "A"
  /\ sdkSession = "A"
  /\ bookmarks = <<>>
  /\ loading = FALSE
  /\ error = Null
  /\ realtimeChannelRef = 1
  /\ isMounted = TRUE
  /\ initPc = "done"
  /\ db = [i \in Ids |-> NoRow]
  /\ commits = 0
  /\ channels = [c \in ChanIds |->
                   IF c = 1 THEN [open |-> TRUE, uid |-> "A", q |-> <<>>]
                   ELSE ClosedChan]
  /\ loads = EmptyBag
  /\ last = Step("mount", <<>>)
  /\ title = <<>>
  /\ url = <<>>
  /\ saving = FALSE
  /\ reqs = EmptyBag
  /\ recPrev = <<>>
  /\ recEv = NoEvent
  /\ recRef = [i \in Ids |-> NoRec]
  /\ recN = 0

NextCmd ==
  \/ \E s \in StrsOver(TitleChars) : SetTitle(s)
  \/ \E s \in StrsOver(UrlChars) : SetUrl(s)
  \/ handleAddBookmark
  \/ handleAddBookmarkNoUser
  \/ \E r \in BagToSet(reqs) : InsertServe(r)
  \/ \E r \in BagToSet(reqs) : DeleteServe(r)
  \/ \E r \in BagToSet(reqs) : ReqFail(r)
  \/ \E r \in BagToSet(reqs) : InsertDone(r)
  \/ \E i \in Ids : handleDeleteBookmark(i)
  \/ \E r \in BagToSet(reqs) : DeleteDone(r)
  \/ \E c \in ChanIds : FeedDeliver(c)
  \/ handleSignOut
  \/ SignOutError
  \/ OnAuthStateChange(Null)

SpecCmd == InitCmd /\ [][NextCmd]_vars

\* ------------------------------------------------- startup, sign-in, create
\* the sign-in screen is rendered
SignInShown == isMounted /\ ~loading /\ (session = Null \/ user = Null)

\* handleSignIn up to its await
handleSignIn ==
  /\ SignInShown
  /\ CanSend(reqs)
  /\ error' = Null
  /\ reqs' = reqs (+) One(Req("signIn", "req", 0, Null))
  /\ last' = Step("handleSignIn", <<"signInWithOAuth">>)
  /\ UNCHANGED <<title, url, saving, bookmarks>>
  /\ UNCHANGED <<session, user, loading, realtimeChannelRef, isMounted,
                 initPc, sdkSession, db, commits, channels, loads>>
  /\ UNCHANGED recVars

\* the gateway accepts the initiation; the login itself is the provider's
\* business and shows up later as a notification
SignInServe(r) ==
  /\ BagIn(r, reqs)
  /\ r.kind = "signIn"
  /\ r.st = "req"
  /\ reqs' = (reqs (-) One(r)) (+) One([r EXCEPT !.st = "ok"])
  /\ last' = Step("backend", <<>>)
  /\ UNCHANGED <<title, url, saving, bookmarks>>
  /\ UNCHANGED <<session, user, loading, error, realtimeChannelRef, isMounted,
                 initPc, sdkSession, db, commits, channels, loads>>
  /\ UNCHANGED recVars

\* a handler that takes an accepted initiation for the login
SignInDone_SetsSession(r) ==
  /\ BagIn(r, reqs)
  /\ r.kind = "signIn"
  /\ r.st # "req"
  /\ reqs' = reqs (-) One(r)
  /\ error' = IF r.st = "ok" THEN error ELSE "Failed to sign in with Google"
  /\ session' = IF r.st = "ok" THEN "A" ELSE session
  /\ user' = IF r.st = "ok" THEN "A" ELSE user
  /\ last' = Step(IF r.st = "ok" THEN "signInOk" ELSE "signInFailed", <<>>)
  /\ UNCHANGED <<title, url, saving, bookmarks>>
  /\ UNCHANGED <<loading, realtimeChannelRef, isMounted,
                 initPc, sdkSession, db, commits, channels, loads>>
  /\ UNCHANGED recVars

\* handleSignIn after its await
SignInDone(r) ==
  /\ BagIn(r, reqs)
  /\ r.kind = "signIn"
  /\ r.st # "req"
  /\ reqs' = reqs (-) One(r)
  /\ error' = IF r.st = "ok" THEN error ELSE "Failed to sign in with Google"
  /\ last' = Step(IF r.st = "ok" THEN "signInOk" ELSE "signInFailed", <<>>)
  /\ UNCHANGED <<title, url, saving, bookmarks>>
  /\ UNCHANGED <<session, user, loading, realtimeChannelRef, isMounted,
                 initPc, sdkSession, db, commits, channels, loads>>
  /\ UNCHANGED recVars

\* a tab from its mount on, used by one identity
InitUi == Init /\ sdkSession \in {"A", Null}

\* startup, sign-in initiation and the notifications that bring the login
NextSignIn ==
  \/ InitResolve
  \/ \E s \in {"A", Null} : OnAuthStateChange(s)
  \/ \E l \in BagToSet(loads) : LoadServe(l)
  \/ \E l \in BagToSet(loads) : LoadFail(l)
  \/ \E l \in BagToSet(loads) : LoadDeliver(l)
  \/ handleSignIn
  \/ \E r \in BagToSet(reqs) : SignInServe(r)
  \/ \E r \in BagToSet(reqs) : ReqFail(r)
  \/ \E r \in BagToSet(reqs) : SignInDone(r)

SpecSignIn == InitUi /\ [][NextSignIn]_vars

\* texts typed in the runs from startup: nothing, or one usable word
UiStrs == {<<>>, <<"x">>}

\* startup and creates, with no change of session
NextCreate ==
  \/ InitResolve
  \/ \E l \in BagToSet(loads) : LoadServe(l)
  \/ \E l \in BagToSet(loads) : LoadFail(l)
  \/ \E l \in BagToSet(loads) : LoadDeliver(l)
  \/ \E s \in UiStrs : SetTitle(s)
  \/ \E s \in UiStrs : SetUrl(s)
  \/ handleAddBookmark
  \/ \E r \in BagToSet(reqs) : InsertServe(r)
  \/ \E r \in BagToSet(reqs) : ReqFail(r)
  \/ \E r \in BagToSet(reqs) : InsertDone(r)
  \/ \E c \in ChanIds : FeedDeliver(c)

SpecCreate == InitUi /\ [][NextCreate]_vars

\* every pending call completes: getSession() returns, the insert request is
\* answered and its answer reaches the handler
PendingCallsComplete ==
  /\ WF_vars(InitResolve)
  /\ WF_vars(\E r \in BagToSet(reqs) : InsertServe(r) \/ ReqFail(r))
  /\ WF_vars(\E r \in BagToSet(reqs) : InsertDone(r))

SpecCreateFair == SpecCreate /\ PendingCallsComplete

\* ================================================================= claims
Positions(fx, name) == {k \in 1..Len(fx) : fx[k] = name}
Before(fx, a, b) == \A i \in Positions(fx, a), j \in Positions(fx, b) : i < j
RecordsOf(list) == {list[k] : k \in 1..Len(list)}

\* C1: after any sequence of INSERT/UPDATE/DELETE events the list holds exactly
\* the records of the log replayed over a set keyed by id: one record per
\* surviving id, carrying its last write, and none for a deleted id.
C1_ListIsReplayedLog ==
  \A i \in Ids :
    /\ CountId(bookmarks, i) = (IF recRef[i] # NoRec THEN 1 ELSE 0)
    /\ \A k \in 1..Len(bookmarks) : bookmarks[k].id = i => bookmarks[k] = recRef[i]

\* C2: an INSERT event for an id already in the list gives the same list as an
\* UPDATE event with the same payload, and the list does not grow.
C2_DuplicateInsertIsUpdate ==
  (recEv.eventType = "INSERT" /\ recEv.new.id \in IdsOf(recPrev))
  => /\ bookmarks = ApplyEvent(recPrev, Payload("UPDATE", recEv.new, OldKey(recEv.new.id)))
     /\ Len(bookmarks) = Len(recPrev)

\* C3: while a session is present no two records of the list share an id,
\* whatever the interleaving of snapshot loads and feed events.
C3_UniqueIds ==
  session # Null => \A i \in Ids : CountId(bookmarks, i) <= 1

\* C4: once a transition to absent has been processed the list is empty and no
\* feed subscription is open, until the next transition to present.
C4_AbsentIsEmptyAndClosed ==
  session = Null => (bookmarks = <<>> /\ OpenIds(channels) = {})

\* C5: a snapshot load started by an earlier transition never writes the list
\* after a later transition has been processed.
C5_NoStaleSnapshotWrite ==
  ~(last.op = "loadDone" /\ last.wrote /\ last.stale)

\* C6: once every snapshot response and feed event has been delivered and the
\* session is present, the records of the list are the bookmarks the backend
\* holds for the current identity.
Quiescent ==
  /\ isMounted
  /\ session # Null
  /\ session = sdkSession
  /\ initPc = "done"
  /\ loads = EmptyBag
  /\ \A c \in ChanIds : channels[c].q = <<>>
  /\ error = Null

C6_ConvergesToBackend ==
  Quiescent => RecordsOf(bookmarks) = RecordsOf(Select(db, session))

\* C7: at every moment at most one feed subscription is open, and it is the one
\* recorded in realtimeChannelRef.
C7_AtMostOneSubscription ==
  /\ Cardinality(OpenIds(channels)) <= 1
  /\ OpenIds(channels) \subseteq {realtimeChannelRef}

\* startup resolution and a transition notification have both called
\* setupRealtime: init's call replaced the subscription the callback had opened
C7_Witness ==
  /\ last.op = "loadDone"
  /\ last.by = "init"
  /\ Positions(last.fx, "removeChannel") # {}
  /\ Cardinality(OpenIds(channels)) = 1

\* C8: no event of a torn-down subscription is applied or left to be applied:
\* every undelivered event, and every event the callback has just applied,
\* belongs to the open subscription recorded in realtimeChannelRef.
C8_NoEventFromTornDown ==
  /\ \A c \in ChanIds :
       channels[c].q # <<>> => (channels[c].open /\ c = realtimeChannelRef)
  /\ last.op = "feed" =>
       (last.chan = realtimeChannelRef /\ channels[last.chan].open)

\* a subscription that still had undelivered events was torn down and a new
\* one has begun
C8_Witness ==
  /\ last.op = "authPresent"
  /\ last.dropped > 0
  /\ realtimeChannelRef # NoChannel
  /\ channels[realtimeChannelRef].open

\* C9: every transition to present-with-identity, from the startup resolution
\* or from a notification, triggers a snapshot reload and then a feed
\* subscription, in that order.
C9_ReloadThenSubscribe ==
  /\ last.op = "authPresent" =>
       /\ Positions(last.fx, "select") # {}
       /\ Positions(last.fx, "subscribe") # {}
       /\ Before(last.fx, "select", "subscribe")
  /\ (last.op = "initResolve" /\ isMounted /\ session # Null) =>
       /\ last.fx = <<"select">>
       /\ initPc = "awaitLoad"
  /\ initPc = "awaitLoad" => \E l \in BagToSet(loads) : l.by = "init"
  /\ (last.op = "loadDone" /\ last.by = "init") =>
       /\ last.fx # <<>>
       /\ last.fx[Len(last.fx)] = "subscribe"
       /\ initPc = "done"

\* a notification with a session was processed while a subscription was open
C9_Witness ==
  /\ last.op = "authPresent"
  /\ session \in Users
  /\ last.fx = <<"select", "removeChannel", "subscribe">>

C11_RecordsBelongToSession ==
  session # Null =>
    \A k \in 1..Len(bookmarks) : db[bookmarks[k].id].owner = session

\* the step delivers the response of the snapshot request l
Arrives(l) == BagIn(l, loads) /\ loads' = loads (-) One(l)

\* C12 as stated: when a snapshot load fails the list is what it was before the
\* load was issued (it holds the records of the same identifiers) and the error message 'Failed to load bookmarks'
\* is set.
C12_FailedLoadListAsIssued ==
  [][\A l \in BagToSet(loads) :
       (Arrives(l) /\ l.st = "err")
       => (IdsOf(bookmarks') = l.at /\ error' = "Failed to load bookmarks")]_vars

\* C12 amended: when a snapshot load fails the list is left exactly as the
\* failure found it (not cleared, not partly replaced; what arrived between the
\* issue and the failure stays applied) and the error message
\* 'Failed to load bookmarks' is set.
C12_FailedLoadKeepsList ==
  [][\A l \in BagToSet(loads) :
       (Arrives(l) /\ l.st = "err")
       => (bookmarks' = bookmarks /\ error' = "Failed to load bookmarks")]_vars

\* a load failed while the list held records
C12_Witness ==
  /\ last.op = "loadDone"
  /\ ~last.wrote
  /\ bookmarks # <<>>
  /\ error = "Failed to load bookmarks"
  /\ session # Null

\* C13: when a snapshot load succeeds the list becomes exactly the returned
\* records; nothing of the previous list survives and nothing is merged.
C13_LoadReplacesList ==
  [][\A l \in BagToSet(loads) :
       (Arrives(l) /\ l.st = "ok") => bookmarks' = l.data]_vars

\* a snapshot was written that lacks a row the backend holds by now for the
\* identity: the list is the snapshot and nothing else
C13_Witness ==
  /\ last.op = "loadDone"
  /\ last.wrote
  /\ session # Null
  /\ Len(bookmarks) < Cardinality(Visible(db, session))

\* C14: snapshot responses and feed events change the list in the order they
\* arrive, not the order of issue: each arriving snapshot is applied to the
\* list as it is then, each feed event is the oldest undelivered one of its
\* subscription, and no arrival is skipped.
C14_AppliedInArrivalOrder ==
  [][/\ last'.op = "feed" =>
          LET c == last'.chan
          IN  /\ channels[c].q # <<>>
              /\ bookmarks' = ApplyEvent(bookmarks, Head(channels[c].q))
              /\ channels'[c].q = Tail(channels[c].q)
     /\ last'.op = "loadDone" =>
          \E l \in BagToSet(loads) :
            /\ Arrives(l)
            /\ l.stale = last'.stale
            /\ (l.st = "ok") = last'.wrote
            /\ l.st = "ok" => bookmarks' = l.data]_vars

\* a snapshot requested by an earlier transition arrived after the one requested
\* later and was applied last
C14_Witness ==
  /\ last.op = "loadDone"
  /\ last.wrote
  /\ last.stale
  /\ loads = EmptyBag
  /\ session # Null
  /\ isMounted

\* the identifier an event is about: old.id for DELETE, new.id otherwise
EventId(payload) ==
  IF payload.eventType = "DELETE" THEN payload.old.id ELSE payload.new.id

\* C15: applying an UPDATE or a DELETE event whose id is not in the list leaves
\* the list unchanged: same records, same order, same length.
C15_AbsentIdIsNoOp ==
  (recEv.eventType \in {"UPDATE", "DELETE"} /\ EventId(recEv) \notin IdsOf(recPrev))
  => bookmarks = recPrev

\* an UPDATE for an identifier the non-empty list does not hold was applied
C15_Witness ==
  /\ recEv.eventType = "UPDATE"
  /\ recPrev # <<>>
  /\ EventId(recEv) \notin IdsOf(recPrev)
  /\ bookmarks = recPrev

\* the step delivers the answer of the insert or delete request r
Returns(r) == BagIn(r, reqs) /\ reqs' = reqs (-) One(r)

\* the step is a submit of the create form
Submits == last'.op \in {"addRejected", "addIssued"}

\* C16: a create whose title or URL is empty after trimming whitespace is
\* rejected with the error 'Please provide both a title and URL'; no insert
\* request is issued and the inputs, the saving flag and the list are unchanged.
C16_BlankCreateRejected ==
  [][(Submits /\ (Trim(title) = <<>> \/ Trim(url) = <<>>))
     => /\ last'.op = "addRejected"
        /\ error' = "Please provide both a title and URL"
        /\ reqs' = reqs
        /\ title' = title
        /\ url' = url
        /\ saving' = saving
        /\ bookmarks' = bookmarks]_vars

\* a whitespace-only title with a usable URL was submitted and rejected
C16_Witness ==
  /\ last.op = "addRejected"
  /\ title # <<>>
  /\ Trim(title) = <<>>
  /\ Trim(url) # <<>>
  /\ error = "Please provide both a title and URL"
  /\ ~saving
  /\ reqs = EmptyBag

\* the URL an accepted create is to send for the typed text u: the trimmed text
\* when it carries a scheme, else https:// followed by the trimmed text
HasScheme(s) == StartsWith(s, "http://") \/ StartsWith(s, "https://")
ExpectedUrl(u) ==
  IF HasScheme(Trim(u)) THEN Trim(u) ELSE <<"https://">> \o Trim(u)

\* C17: for every accepted create the URL sent in the insert request is the
\* trimmed input when it already carries http:// or https://, else https://
\* followed by the trimmed input, also with leading or trailing whitespace.
C17_SentUrlNormalized ==
  last.op = "addIssued" => last.sent.url = ExpectedUrl(url)

\* C18: when a create request succeeds the title and URL fields are cleared;
\* when it fails the error 'Failed to save bookmark' is set and both fields
\* keep their contents.
C18_ClearOnSuccessKeepOnFailure ==
  [][\A r \in BagToSet(reqs) :
       (r.kind = "insert" /\ Returns(r))
       => /\ r.st = "ok" => (title' = <<>> /\ url' = <<>>)
          /\ r.st = "err" => /\ error' = "Failed to save bookmark"
                             /\ title' = title
                             /\ url' = url]_vars

\* a create failed with both fields filled, after an earlier create had
\* succeeded
C18_Witness ==
  /\ last.op = "insertFailed"
  /\ error = "Failed to save bookmark"
  /\ Trim(title) # <<>>
  /\ Trim(url) # <<>>
  /\ \E i \in Ids : db[i].st = "live"

\* the steps of the create and delete handlers
CommandOps == {"addRejected", "addIssued", "insertOk", "insertFailed",
               "handleDelete", "deleteOk", "deleteFailed"}

\* C19: the create and delete handlers never change the list, on success or on
\* failure: the list changes only through a snapshot replace, a feed event or
\* the clearing on a transition to absent, so a record whose delete request
\* failed stays in the list.
C19_CommandsLeaveList ==
  [][/\ (last'.op \in CommandOps \/ \E r \in BagToSet(reqs) : Returns(r))
        => bookmarks' = bookmarks
     /\ bookmarks' # bookmarks => last'.op \in {"loadDone", "feed", "authAbsent"}]_vars

\* a delete request failed and its record is still in the list
C19_Witness ==
  /\ last.op = "deleteFailed"
  /\ last.id \in IdsOf(bookmarks)
  /\ error = "Failed to delete bookmark"

\* C20: every error a gateway call returns is surfaced as the user-visible
\* error message: after a failed insert, delete or sign-out the message is set.
C20_EveryGatewayErrorSurfaced ==
  /\ last.op = "insertFailed" => error = "Failed to save bookmark"
  /\ last.op = "deleteFailed" => error = "Failed to delete bookmark"
  /\ last.op = "signOutFailed" => error # Null

\* how many times the record r occurs in the list
CountRec(list, r) == Cardinality({k \in 1..Len(list) : list[k] = r})

\* C21: the display list is the in-memory list sorted by creation timestamp,
\* newest first: the same records with the same multiplicity, every adjacent
\* pair in non-increasing timestamp order; the in-memory list is not changed by
\* computing it.
C21_DisplaySortedNewestFirst ==
  /\ Len(sortedBookmarks) = Len(bookmarks)
  /\ \A r \in RecordsOf(bookmarks) \cup RecordsOf(sortedBookmarks) :
       CountRec(sortedBookmarks, r) = CountRec(bookmarks, r)
  /\ \A k \in 1..(Len(sortedBookmarks) - 1) :
       sortedBookmarks[k].created_at >= sortedBookmarks[k + 1].created_at

\* a list held out of order, with a record repeated, is displayed
C21_Witness ==
  /\ Len(bookmarks) >= 3
  /\ sortedBookmarks # bookmarks
  /\ \E r \in RecordsOf(bookmarks) : CountRec(bookmarks, r) = 2

\* the list without the records of identifier i, the others kept in order
RECURSIVE Without(_, _)
Without(list, i) ==
  IF list = <<>> THEN <<>>
  ELSE IF Head(list).id = i THEN Without(Tail(list), i)
  ELSE <<Head(list)>> \o Without(Tail(list), i)

\* C22: a DELETE event removes every record of its id from the list and
\* nothing else; the other records keep their relative order, in the list and
\* in the display list (display [id:2, id:1] becomes [id:1] after DELETE id:2).
C22_DeleteRemovesOnlyThatId ==
  recEv.eventType = "DELETE"
  => /\ bookmarks = Without(recPrev, recEv.old.id)
     /\ sortedBookmarks = Without(SortDesc(recPrev), recEv.old.id)

\* the record displayed first of two was deleted and the other one is left
C22_Witness ==
  /\ recEv.eventType = "DELETE"
  /\ Len(recPrev) = 2
  /\ SortDesc(recPrev)[1].id = recEv.old.id
  /\ SortDesc(recPrev)[1].created_at > SortDesc(recPrev)[2].created_at
  /\ sortedBookmarks = <<SortDesc(recPrev)[2]>>

\* the list after the DELETE event for identifier i
Deleted(list, i) == ApplyEvent(list, Payload("DELETE", NoRec, OldKey(i)))

\* C23: repeated deletes are safe: the DELETE event for the same id applied
\* twice gives the list it gives applied once, and DELETE events for two ids
\* give the same list in either order.
C23_DeleteIdempotentCommutes ==
  /\ recEv.eventType = "DELETE" => ApplyEvent(bookmarks, recEv) = bookmarks
  /\ \A i \in Ids : Deleted(Deleted(bookmarks, i), i) = Deleted(bookmarks, i)
  /\ \A i, j \in Ids :
       Deleted(Deleted(bookmarks, i), j) = Deleted(Deleted(bookmarks, j), i)

\* a DELETE event arrived, as the second event of a run, for an identifier the
\* list no longer holds, with a record of another identifier in the list
C23_Witness ==
  /\ recN = 2
  /\ recEv.eventType = "DELETE"
  /\ recEv.old.id \notin IdsOf(recPrev)
  /\ recRef[recEv.old.id] = NoRec
  /\ Len(recPrev) = MaxStart - 1
  /\ bookmarks # <<>>

\* C29: an UPDATE event for an id in the list replaces that record in place:
\* the length and every position are unchanged and only the records of the
\* event's id take the new payload.
C29_UpdateInPlace ==
  (recEv.eventType = "UPDATE" /\ recEv.new.id \in IdsOf(recPrev))
  => /\ Len(bookmarks) = Len(recPrev)
     /\ \A k \in 1..Len(recPrev) :
          bookmarks[k] = IF recPrev[k].id = recEv.new.id
                         THEN recEv.new ELSE recPrev[k]

\* the first of two records was updated with a new payload and stayed first
C29_Witness ==
  /\ recEv.eventType = "UPDATE"
  /\ Len(recPrev) >= 2
  /\ recPrev[1].id = recEv.new.id
  /\ recPrev[1] # recEv.new
  /\ bookmarks[1] = recEv.new
  /\ bookmarks[2] = recPrev[2]

\* C30: an INSERT event for an id not in the list appends exactly one record at
\* the end of the list and leaves every record already there where it was.
C30_InsertAppendsOne ==
  (recEv.eventType = "INSERT" /\ recEv.new.id \notin IdsOf(recPrev))
  => /\ Len(bookmarks) = Len(recPrev) + 1
     /\ bookmarks[Len(bookmarks)] = recEv.new
     /\ \A k \in 1..Len(recPrev) : bookmarks[k] = recPrev[k]

\* a record of a new identifier was appended to a non-empty list
C30_Witness ==
  /\ recEv.eventType = "INSERT"
  /\ recPrev # <<>>
  /\ recEv.new.id \notin IdsOf(recPrev)
  /\ CountId(bookmarks, recEv.new.id) = 1
  /\ bookmarks[Len(bookmarks)] = recEv.new

\* C24: no error is fatal: the loading indicator set at startup and the saving
\* flag set by create each return to false once the pending call completes,
\* with or without error, and after a failed call the screen is shown and the
\* action can be issued again.
C24_FlagsReturnToFalse ==
  /\ loading ~> ~loading
  /\ saving ~> ~saving
  /\ [](last.op = "insertFailed" => (FormShown /\ ~saving))
  /\ []((last.op = "loadDone" /\ ~last.wrote) => ~loading)

\* a create failed on the signed-in screen and the form is usable again
C24_Witness ==
  /\ last.op = "insertFailed"
  /\ error = "Failed to save bookmark"
  /\ bookmarks = <<>>
  /\ realtimeChannelRef # NoChannel
  /\ FormShown
  /\ ~saving
  /\ \A i \in Ids : db[i].st = "none"

\* C25: loading becomes false only in the step in which the startup session
\* resolution returns and stores its session, never earlier, even after a
\* notification; once false it never becomes true again.
C25_ReadyOnlyAfterResolution ==
  [][/\ (loading /\ ~loading')
        => /\ initPc = "getSession"
           /\ initPc' # "getSession"
           /\ session' = sdkSession
           /\ user' = sdkSession
     /\ ~loading => ~loading']_vars

\* readiness was signalled by the startup resolution after a notification had
\* already started its own load
C25_Witness ==
  /\ last.op = "initResolve"
  /\ ~loading
  /\ \E l \in BagToSet(loads) : l.by = "cb"

\* the step belongs to a sign-in initiation
SignInStep ==
  \/ last'.op \in {"handleSignIn", "signInOk", "signInFailed"}
  \/ \E r \in BagToSet(reqs) : r.kind = "signIn" /\ Returns(r)

\* C26: sign-in initiation never changes the session, the identity, the list or
\* the subscription, whether it succeeds or fails; a session becomes present
\* only through the startup resolution or a notification, and a failed
\* initiation only sets the error 'Failed to sign in with Google'.
C26_SignInLeavesSession ==
  [][/\ SignInStep
        => /\ session' = session
           /\ user' = user
           /\ bookmarks' = bookmarks
           /\ realtimeChannelRef' = realtimeChannelRef
           /\ channels' = channels
           /\ loads' = loads
           /\ loading' = loading
     /\ (session' # session /\ session' # Null)
        => last'.op \in {"initResolve", "authPresent"}
     /\ \A r \in BagToSet(reqs) :
          (r.kind = "signIn" /\ r.st = "err" /\ Returns(r))
          => error' = "Failed to sign in with Google"]_vars

\* an initiation failed on the sign-in screen: no session, no subscription
C26_Witness ==
  /\ last.op = "signInFailed"
  /\ error = "Failed to sign in with Google"
  /\ session = Null
  /\ user = Null
  /\ OpenIds(channels) = {}

\* a sign-out may still be in progress: in the command runs only handleSignOut
\* gives up the handle, and its request counts as pending until its failure
\* has been seen
SignOutPending == realtimeChannelRef = NoChannel /\ last.op # "signOutFailed"

\* C27: whenever the session is present and no startup step, load or sign-out
\* is pending, exactly one feed subscription is open, also after a sign-out
\* request that failed.
C27_PresentSessionSubscribed ==
  (session # Null /\ initPc = "done" /\ loads = EmptyBag /\ ~SignOutPending)
  => Cardinality(OpenIds(channels)) = 1

\* C28: after the effect's cleanup has run no feed subscription is open and
\* none is opened later, whatever startup step was in flight at the unmount.
C28_NoSubscriptionAfterUnmount ==
  ~isMounted => OpenIds(channels) = {}

\* C31: every insert request carries a non-empty title without leading or
\* trailing whitespace, a non-empty URL that begins with http:// or https://,
\* and as owner the identity of the session current at the submit.
C31_InsertPayloadWellFormed ==
  last.op = "addIssued"
  => /\ last.sent.title # <<>>
     /\ Head(last.sent.title) # Space
     /\ last.sent.title[Len(last.sent.title)] # Space
     /\ last.sent.url # <<>>
     /\ Head(last.sent.url) \in {"http://", "https://"}
     /\ last.sent.user_id # Null
     /\ last.sent.user_id = session

\* a create was accepted for a title typed with whitespace around it and a URL
\* typed without a scheme
C31_Witness ==
  /\ last.op = "addIssued"
  /\ Head(title) = Space
  /\ Head(url) \notin {"http://", "https://"}
  /\ BagCardinality(reqs) = 1

\* the create requests in flight
InsertsInFlight == {r \in BagToSet(reqs) : r.kind = "insert"}

\* C32: saving is true exactly while a create request is in flight, whether it
\* will succeed or fail, and at most one create request is in flight.
C32_SavingIffCreateInFlight ==
  /\ saving <=> InsertsInFlight # {}
  /\ \A r \in InsertsInFlight : reqs[r] = 1
  /\ Cardinality(InsertsInFlight) <= 1
  /\ last.op \in {"insertOk", "insertFailed"} => ~saving

\* a create has been answered with an error that has not reached the handler
\* yet, next to a delete in flight: saving is still true
C32_Witness ==
  /\ saving
  /\ \E r \in InsertsInFlight : r.st = "err"
  /\ \E r \in BagToSet(reqs) : r.kind = "delete"

\* C33: with no identity present a submit of the create form issues no request
\* and changes nothing: inputs, error message, saving flag and list stay as
\* they were.
C33_NoUserSubmitChangesNothing ==
  [][last'.op = "addNoUser"
     => /\ user = Null
        /\ reqs' = reqs
        /\ title' = title
        /\ url' = url
        /\ error' = error
        /\ saving' = saving
        /\ bookmarks' = bookmarks]_vars

\* the handler was called with no user while the fields were blank and no
\* message was shown
C33_Witness ==
  /\ last.op = "addNoUser"
  /\ user = Null
  /\ Trim(title) = <<>>
  /\ error = Null
  /\ ~saving

\* C34: the stored identity agrees with the stored session: user is non-null
\* exactly when the session is, and then it is that session's user (the model
\* stands a session by its user).
C34_UserAgreesWithSession ==
  /\ user # Null <=> session # Null
  /\ user # Null => user = session

\* a notification replaced the session of one user by the session of another
C34_Witness ==
  /\ last.op = "authPresent"
  /\ user = session
  /\ session # Null
  /\ \E l \in BagToSet(loads) : l.stale /\ l.uid # session

====
